---- MODULE Spec2Model ----
(***************************************************************************)
(* The item resource of the Express + Prisma template: the five request    *)
(* handlers of controllers/itemController.ts, the errorHandler middleware, *)
(* the error classes of utils/errors.ts and the two itemService variants   *)
(* (throwing Error("ITEM_NOT_FOUND") or NotFoundError("Item")), run over a *)
(* table of items.  Requests are served concurrently: every database call  *)
(* is atomic and may fail, and a handler that makes two calls can be       *)
(* overtaken between them.  A request's arrival is taken together with its *)
(* first database call, since nothing before that call reads shared state. *)
(***************************************************************************)
EXTENDS Integers, Sequences, FiniteSets, TLC

\* ---- bounds ----
MaxReqs == 3      \* requests issued in one behaviour
MaxId   == 2      \* ids the table hands out, and ids requests ask for

Names == {"x", "y"}
Ids   == 1..MaxId

VARIABLES db, nextId, variant, reqs, twin

vars == <<db, nextId, variant, reqs, twin>>

\* ---- values ----
\* what findUnique resolves to when there is no row
Null == [id |-> 0, name |-> ""]
\* the status of an error object that has no status property
NoStatus == 0
NoErr == [name |-> "", message |-> "", status |-> NoStatus]

\* response bodies, as res.json / res.send serialise them
ItemBody(item)   == [json |-> "item", item |-> item, items |-> <<>>, message |-> ""]
ArrayBody(items) == [json |-> "array", item |-> Null, items |-> items, message |-> ""]
MessageBody(m)   == [json |-> "message", item |-> Null, items |-> <<>>, message |-> m]
\* JSON.stringify of a pending Promise object: "{}"
PromiseBody      == [json |-> "{}", item |-> Null, items |-> <<>>, message |-> ""]
\* res.send() without an argument
EmptyBody        == [json |-> "", item |-> Null, items |-> <<>>, message |-> ""]

\* ---- utils/errors.ts ----
\* new Error(message): no status property
Error(message) == [name |-> "Error", message |-> message, status |-> NoStatus]

AppError(message, status) == [name |-> "AppError", message |-> message, status |-> status]

\* the constructor's default argument, status: number = 500
AppErrorDefault(message) == AppError(message, 500)

NotFoundErrorBad(resource) ==
    [AppError(resource \o " not found", 400) EXCEPT !.name = "NotFoundError"]

NotFoundError(resource) ==
    [AppError(resource \o " not found", 404) EXCEPT !.name = "NotFoundError"]

\* ---- errors raised below the service ----
\* the database cannot be reached: the query promise rejects
DbUnavailable == [name |-> "PrismaClientInitializationError",
                  message |-> "Can't reach database server", status |-> NoStatus]
\* prisma update/delete on a row that does not exist (code P2025)
RecordNotFound == [name |-> "PrismaClientKnownRequestError",
                   message |-> "Record not found", status |-> NoStatus]
\* a header is set on a response whose headers were already sent
HeadersSentError == [name |-> "ERR_HTTP_HEADERS_SENT",
                     message |-> "Cannot set headers after they are sent to the client",
                     status |-> NoStatus]

\* ---- the table, as the prisma client sees it ----
HasRow(d, id) == \E it \in d : it.id = id

findUnique(d, id) == IF HasRow(d, id) THEN CHOOSE it \in d : it.id = id ELSE Null

RECURSIVE findManyFrom(_, _)
findManyFrom(d, id) ==
    IF id > MaxId + 1 THEN <<>>
    ELSE (IF HasRow(d, id) THEN <<findUnique(d, id)>> ELSE <<>>) \o findManyFrom(d, id + 1)

findMany(d) == findManyFrom(d, 1)

\* prisma.item.create: the row gets the next autoincrement id
createRowBad(d, id, name) == d \cup {[id |-> id, name |-> ""]}

createRow(d, id, name) == d \cup {[id |-> id, name |-> name]}

updateRowBad(d, id, name) == d

updateRowAll(d, id, name) == {[it EXCEPT !.name = name] : it \in d}

updateRow(d, id, name) == {IF it.id = id THEN [it EXCEPT !.name = name] ELSE it : it \in d}

deleteRowBad(d, id) == d

deleteRow(d, id) == {it \in d : it.id # id}

\* ---- the response object ----
HeadersSent(r) == r.resp # <<>>

\* res.status(status).json(body) / .send(): one write call; only the first
\* one reaches the client, a later one throws HeadersSentError
Send(r, status, body) ==
    [r EXCEPT !.writes = @ + 1,
              !.resp = IF HeadersSent(r) THEN @
                       ELSE <<[status |-> status, body |-> body]>>]

\* ---- middleware/errorHandler.ts ----
errorHandler(r, err) ==
    Send(r, IF err.status = NoStatus THEN 500 ELSE err.status,
         MessageBody(IF err.message = "" THEN "Internal Server Error" ELSE err.message))

\* next(error): app.ts registers errorHandler after the routes
NextFn(r, err) == errorHandler([r EXCEPT !.nexts = Append(@, err)], err)

\* ---- services/itemService.ts: what the existence check throws ----
ItemNotFound(v) == IF v = "Error" THEN Error("ITEM_NOT_FOUND") ELSE NotFoundError("Item")

\* ---- requests ----
\* a request arrives; prior is the set of requests already answered then
NewReq(rs, kind, id, name) ==
    [kind |-> kind, id |-> id, name |-> name, pc |-> "done",
     item |-> Null, items |-> <<>>, err |-> NoErr,
     resp |-> <<>>, writes |-> 0, nexts |-> <<>>,
     prior |-> {j \in DOMAIN rs : HeadersSent(rs[j])}]

\* ---- the application: table, autoincrement counter, requests ----
\* db, nextId and reqs are the application with the service variant `variant`
\* wired in; twin is the same application with the other variant wired in,
\* given the same requests, the same database outcomes and the same schedule.
Sys == [db |-> db, nextId |-> nextId, reqs |-> reqs]

Other(v) == IF v = "Error" THEN "NotFoundError" ELSE "Error"

Init ==
    /\ db = {}
    /\ nextId = 1
    /\ variant \in {"Error", "NotFoundError"}
    /\ reqs = <<>>
    /\ twin = [db |-> {}, nextId |-> 1, reqs |-> <<>>]

CanIssue == Len(reqs) < MaxReqs

\* the outcomes of a database call: it resolves, or it rejects
Outcomes == BOOLEAN

\* getItems calls the service without await: the handler serialises the
\* pending promise at once and the query is left floating
getItemsOn(s) ==
    [s EXCEPT !.reqs = Append(@, [Send(NewReq(s.reqs, "getItems", 0, ""), 200, PromiseBody)
                                     EXCEPT !.pc = "floating"])]

\* the floating query of getItems settles; nobody reads its value, and a
\* rejection is not caught by the handler's try/catch
getItemsSettledOn(s, i, ok) ==
    [s EXCEPT !.reqs[i] =
        IF ok THEN [@ EXCEPT !.pc = "done", !.items = findMany(s.db)]
        ELSE [@ EXCEPT !.pc = "done", !.err = DbUnavailable]]

\* createItem, controller and service
createItemOn(s, name, ok) ==
    LET r == NewReq(s.reqs, "createItem", 0, name)
    IN IF ok
       THEN LET created == createRow(s.db, s.nextId, name)
                result == findUnique(created, s.nextId)
            IN [db |-> created,
                nextId |-> s.nextId + 1,
                reqs |-> Append(s.reqs, Send([r EXCEPT !.item = result],
                                             200, ItemBody(result)))]
       ELSE [s EXCEPT !.reqs = Append(@, NextFn([r EXCEPT !.err = DbUnavailable],
                                                DbUnavailable))]

\* the body of getItemById after the await: the 404 branch does not return
getItemByIdBody(r, item) ==
    LET r1 == IF item = Null THEN Send(r, 404, MessageBody("Item not found")) ELSE r
        r2 == Send(r1, 200, ItemBody(item))
    IN IF HeadersSent(r1) THEN NextFn(r2, HeadersSentError) ELSE r2

\* getItemById, controller and service
getItemByIdOn(s, id, ok) ==
    LET r == NewReq(s.reqs, "getItemById", id, "")
        item == findUnique(s.db, id)
    IN [s EXCEPT !.reqs = Append(@,
            IF ok THEN getItemByIdBody([r EXCEPT !.item = item], item)
            ELSE NextFn([r EXCEPT !.err = DbUnavailable], DbUnavailable))]

catchBlockBad(r, error) ==
    LET r1 == [r EXCEPT !.err = error, !.pc = "done"]
    IN IF error.message = "ITEM_NOT_FOUND"
       THEN Send(r1, 404, MessageBody(error.message))
       ELSE NextFn(r1, error)

\* the catch block of updateItem and of deleteItem
catchBlock(r, error) ==
    LET r1 == [r EXCEPT !.err = error, !.pc = "done"]
    IN IF error.message = "ITEM_NOT_FOUND"
       THEN Send(r1, 404, MessageBody("Item not found"))
       ELSE NextFn(r1, error)

\* the service's existence check, the first half of updateItem and deleteItem
existenceCheckOn(s, v, kind, id, name, ok) ==
    LET r == NewReq(s.reqs, kind, id, name)
        item == findUnique(s.db, id)
    IN [s EXCEPT !.reqs = Append(@,
            IF ok
            THEN IF item = Null
                 THEN catchBlock(r, ItemNotFound(v))
                 ELSE [r EXCEPT !.item = item, !.pc = "mutate"]
            ELSE catchBlock(r, DbUnavailable))]

\* updateItem from prisma.item.update on
updateItemOn(s, i, ok) ==
    LET r == s.reqs[i]
    IN IF ok /\ HasRow(s.db, r.id)
       THEN LET updated == updateRow(s.db, r.id, r.name)
            IN [s EXCEPT !.db = updated,
                         !.reqs[i] = [Send(r, 200, ItemBody(findUnique(updated, r.id)))
                                         EXCEPT !.pc = "done"]]
       ELSE [s EXCEPT !.reqs[i] =
                catchBlock(r, IF ok THEN RecordNotFound ELSE DbUnavailable)]

\* deleteItem from prisma.item.delete on
deleteItemOn(s, i, ok) ==
    LET r == s.reqs[i]
    IN IF ok /\ HasRow(s.db, r.id)
       THEN [s EXCEPT !.db = deleteRow(s.db, r.id),
                      !.reqs[i] = [Send(r, 204, EmptyBody) EXCEPT !.pc = "done"]]
       ELSE [s EXCEPT !.reqs[i] =
                catchBlock(r, IF ok THEN RecordNotFound ELSE DbUnavailable)]

\* both applications take the step
Run(s, t) ==
    /\ db' = s.db
    /\ nextId' = s.nextId
    /\ reqs' = s.reqs
    /\ twin' = t
    /\ UNCHANGED variant

\* GET /api/items
getItems ==
    /\ CanIssue
    /\ Run(getItemsOn(Sys), getItemsOn(twin))

getItemsSettled(i) ==
    /\ reqs[i].kind = "getItems" /\ reqs[i].pc = "floating"
    /\ \E ok \in Outcomes :
         Run(getItemsSettledOn(Sys, i, ok), getItemsSettledOn(twin, i, ok))

\* POST /api/items
createItem(name) ==
    /\ CanIssue
    /\ nextId <= MaxId
    /\ \E ok \in Outcomes :
         Run(createItemOn(Sys, name, ok), createItemOn(twin, name, ok))

\* GET /api/items/:id
getItemById(id) ==
    /\ CanIssue
    /\ \E ok \in Outcomes :
         Run(getItemByIdOn(Sys, id, ok), getItemByIdOn(twin, id, ok))

existenceCheck(kind, id, name) ==
    /\ CanIssue
    /\ \E ok \in Outcomes :
         Run(existenceCheckOn(Sys, variant, kind, id, name, ok),
             existenceCheckOn(twin, Other(variant), kind, id, name, ok))

\* PUT /api/items/:id, up to the existence check
updateItemCheck(id, name) == existenceCheck("updateItem", id, name)

\* DELETE /api/items/:id, up to the existence check
deleteItemCheck(id) == existenceCheck("deleteItem", id, "")

\* PUT /api/items/:id, from prisma.item.update on
updateItem(i) ==
    /\ reqs[i].kind = "updateItem" /\ reqs[i].pc = "mutate"
    /\ \E ok \in Outcomes :
         Run(updateItemOn(Sys, i, ok), updateItemOn(twin, i, ok))

\* DELETE /api/items/:id, from prisma.item.delete on
deleteItem(i) ==
    /\ reqs[i].kind = "deleteItem" /\ reqs[i].pc = "mutate"
    /\ \E ok \in Outcomes :
         Run(deleteItemOn(Sys, i, ok), deleteItemOn(twin, i, ok))

Next ==
    \/ \E name \in Names : createItem(name)
    \/ getItems
    \/ \E id \in Ids : getItemById(id)
    \/ \E id \in Ids, name \in Names : updateItemCheck(id, name)
    \/ \E id \in Ids : deleteItemCheck(id)
    \/ \E i \in DOMAIN reqs : getItemsSettled(i)
    \/ \E i \in DOMAIN reqs : updateItem(i)
    \/ \E i \in DOMAIN reqs : deleteItem(i)

Spec == Init /\ [][Next]_vars

TypeOK ==
    /\ nextId \in 1..(MaxId + 1)
    /\ \A it \in db : it.id \in 1..(nextId - 1) /\ it.name \in Names
    /\ \A i \in DOMAIN reqs : Len(reqs[i].resp) <= 1

\* ---- reading a request's record ----
Done(r) == r.pc = "done"

\* the response the client received
Answered(r, status, body) == r.resp = <<[status |-> status, body |-> body]>>

Status(r) == IF HeadersSent(r) THEN r.resp[1].status ELSE NoStatus

\* a database call of the request rejected
Faulted(r) == r.err = DbUnavailable

\* the request's findUnique resolved to no row
Absent(r) == r.item = Null /\ ~Faulted(r)

\* the request got through both of its database calls and found its row each time
Mutated(r) == Done(r) /\ r.item # Null /\ r.err = NoErr

ByIdKinds == {"getItemById", "updateItem", "deleteItem"}

Mutators == {"updateItem", "deleteItem"}

\* what errorHandler sends for an error, on a response not yet sent
Rendered(r, err) ==
    Answered(r, IF err.status = NoStatus THEN 500 ELSE err.status, MessageBody(err.message))

\* ---- C1 ----
\* C1: every finished request has had exactly one response write, whatever the
\* database did, and no request ever has a second write.
C1_ExactlyOneResponse ==
    \A i \in DOMAIN reqs :
        /\ reqs[i].writes <= 1
        /\ Done(reqs[i]) => reqs[i].writes = 1

\* ---- C2 ----
\* C2: GET, PUT and DELETE on an id that has no row are answered with 404 and
\* {"message": "Item not found"}, with either service variant.
C2_NotFoundAnswer ==
    \A i \in DOMAIN reqs :
        LET r == reqs[i]
        IN (r.kind \in ByIdKinds /\ Done(r) /\ Absent(r))
              => Answered(r, 404, MessageBody("Item not found"))

C2_Witness ==
    /\ variant = "NotFoundError"
    /\ \A k \in ByIdKinds :
          \E i \in DOMAIN reqs :
              /\ reqs[i].kind = k /\ Done(reqs[i]) /\ Absent(reqs[i])
              /\ Status(reqs[i]) = 404

\* ---- C3 ----
\* C3: GET /api/items is answered with 200 and the array of the items the
\* database read returned, [] when the table is empty.
C3_ListBody ==
    \A i \in DOMAIN reqs :
        LET r == reqs[i]
        IN (r.kind = "getItems" /\ Done(r) /\ ~Faulted(r))
              => Answered(r, 200, ArrayBody(r.items))

\* ---- C4 ----
\* C4: a POST that created its row is answered with 201 and the created item.
C4_Created ==
    \A i \in DOMAIN reqs :
        LET r == reqs[i]
        IN (r.kind = "createItem" /\ Done(r) /\ ~Faulted(r))
              => Answered(r, 201, ItemBody(r.item))

\* ---- C5 ----
\* a PUT or DELETE on id arrived before request g
TouchedBefore(g, id, except) ==
    \E k \in 1..(g - 1) :
        k # except /\ reqs[k].kind \in Mutators /\ reqs[k].id = id

\* C5: when a POST of name x has returned item i, a GET of i that arrives
\* after that answer and before any PUT or DELETE on i, and whose database
\* read succeeds, is answered with 200 and the item (i, x), whatever other
\* requests were served in between.
C5_CreateThenGet ==
    \A p \in DOMAIN reqs, g \in DOMAIN reqs :
        (/\ reqs[p].kind = "createItem" /\ HeadersSent(reqs[p]) /\ ~Faulted(reqs[p])
         /\ reqs[g].kind = "getItemById" /\ Done(reqs[g]) /\ ~Faulted(reqs[g])
         /\ p \in reqs[g].prior
         /\ reqs[g].id = reqs[p].resp[1].body.item.id
         /\ ~TouchedBefore(g, reqs[g].id, 0))
           => Answered(reqs[g], 200, ItemBody([id |-> reqs[g].id, name |-> reqs[p].name]))

\* a POST, then a request on another id, then the GET
C5_Witness ==
    \E p \in DOMAIN reqs, g \in DOMAIN reqs :
        /\ reqs[p].kind = "createItem" /\ Status(reqs[p]) = 200
        /\ reqs[g].kind = "getItemById" /\ Status(reqs[g]) = 200
        /\ p \in reqs[g].prior
        /\ reqs[g].id = reqs[p].resp[1].body.item.id
        /\ \E k \in DOMAIN reqs : p < k /\ k < g /\ reqs[k].kind \in Mutators
                                   /\ Done(reqs[k]) /\ reqs[k].id # reqs[g].id

\* ---- C6 ----
\* C6: a DELETE that finds its row at both of its database calls is answered
\* with 204 and an empty body; after a 204 the row is gone, and every GET of
\* that id that arrives after the 204 and reads the database is answered 404.
C6_DeleteThenGet ==
    \A d \in DOMAIN reqs :
        /\ (reqs[d].kind = "deleteItem" /\ Mutated(reqs[d]))
              => Answered(reqs[d], 204, EmptyBody)
        /\ (reqs[d].kind = "deleteItem" /\ Status(reqs[d]) = 204)
              => /\ ~HasRow(db, reqs[d].id)
                 /\ \A g \in DOMAIN reqs :
                       (/\ reqs[g].kind = "getItemById" /\ reqs[g].id = reqs[d].id
                        /\ d \in reqs[g].prior
                        /\ Done(reqs[g]) /\ ~Faulted(reqs[g]))
                          => Status(reqs[g]) = 404

C6_Witness ==
    \E d \in DOMAIN reqs, g \in DOMAIN reqs :
        /\ reqs[d].kind = "deleteItem" /\ Status(reqs[d]) = 204
        /\ reqs[g].kind = "getItemById" /\ reqs[g].id = reqs[d].id
        /\ d \in reqs[g].prior /\ Status(reqs[g]) = 404

\* ---- C7 ----
\* C7: a PUT of name n that finds its row at both of its database calls is
\* answered with 200 and the item (id, n); a GET of that id that arrives after
\* the 200, with no other PUT or DELETE on the id before it, and reads the
\* database, is answered with 200 and the item (id, n).
C7_UpdateThenGet ==
    \A u \in DOMAIN reqs :
        LET updated == ItemBody([id |-> reqs[u].id, name |-> reqs[u].name])
        IN /\ (reqs[u].kind = "updateItem" /\ Mutated(reqs[u]))
                 => Answered(reqs[u], 200, updated)
           /\ (reqs[u].kind = "updateItem" /\ Status(reqs[u]) = 200)
                 => \A g \in DOMAIN reqs :
                       (/\ reqs[g].kind = "getItemById" /\ reqs[g].id = reqs[u].id
                        /\ u \in reqs[g].prior
                        /\ Done(reqs[g]) /\ ~Faulted(reqs[g])
                        /\ ~TouchedBefore(g, reqs[g].id, u))
                          => Answered(reqs[g], 200, updated)

\* the PUT changes the name the POST gave, and the GET sees the new one
C7_Witness ==
    \E u \in DOMAIN reqs, g \in DOMAIN reqs :
        /\ reqs[u].kind = "updateItem" /\ Status(reqs[u]) = 200
        /\ reqs[u].item.name # reqs[u].name
        /\ reqs[g].kind = "getItemById" /\ reqs[g].id = reqs[u].id
        /\ u \in reqs[g].prior
        /\ Answered(reqs[g], 200, ItemBody([id |-> reqs[u].id, name |-> reqs[u].name]))

\* ---- C8 ----
\* C8: every error passed to errorHandler is what the client receives, as
\* {"message": ...} with the error's status, or 500 when it has none; an
\* AppError built without a status has 500 and a NotFoundError has 404.
C8_ErrorRendering ==
    /\ AppErrorDefault("boom").status = 500
    /\ NotFoundError("Item").status = 404
    /\ \A i \in DOMAIN reqs :
          \A k \in DOMAIN reqs[i].nexts : Rendered(reqs[i], reqs[i].nexts[k])

\* ---- C9 ----
\* C9: in updateItem and deleteItem the service's not-found error is answered
\* in the catch block with 404 and the not-found message, next not called;
\* any other error of the service goes to next once and errorHandler
\* answers it with the error's status or 500.
C9_TwoTiers ==
    \A i \in DOMAIN reqs :
        LET r == reqs[i]
        IN (r.kind \in Mutators /\ Done(r) /\ r.err # NoErr)
              => IF r.err = ItemNotFound(variant)
                 THEN r.nexts = <<>> /\ Answered(r, 404, MessageBody("Item not found"))
                 ELSE r.nexts = <<r.err>> /\ Rendered(r, r.err)

\* ---- C10 ----
\* C10: while no database call fails, PUT and DELETE are answered only with
\* 200, 204 or 404, also when the row is removed between the existence check
\* and the mutation.
C10_RaceIs404 ==
    \A i \in DOMAIN reqs :
        LET r == reqs[i]
        IN (r.kind \in Mutators /\ Done(r) /\ ~Faulted(r))
              => Status(r) \in {200, 204, 404}

\* ---- C11 ----
\* the request that took the step: the one that arrived, or the one in flight
\* whose record changed
Stepper ==
    IF Len(reqs') > Len(reqs) THEN Len(reqs')
    ELSE CHOOSE i \in DOMAIN reqs : reqs'[i] # reqs[i]

RowsOf(d, id) == {it \in d : it.id = id}

OthersSame(id) == \A it \in db \cup db' : it.id # id => (it \in db /\ it \in db')

FrameOf(r) ==
    CASE r.kind = "updateItem" /\ Status(r) = 200 ->
            /\ Cardinality(RowsOf(db, r.id)) = 1
            /\ RowsOf(db', r.id) = {[id |-> r.id, name |-> r.name]}
            /\ OthersSame(r.id)
      [] r.kind = "deleteItem" /\ Status(r) = 204 ->
            /\ Cardinality(RowsOf(db, r.id)) = 1
            /\ RowsOf(db', r.id) = {}
            /\ OthersSame(r.id)
      [] r.kind = "createItem" /\ Status(r) \in {200, 201} ->
            /\ db \subseteq db'
            /\ Cardinality(db' \ db) = 1
            /\ \A new \in db' \ db : \A old \in db : new.id # old.id
      [] OTHER -> db' = db

\* C11: a step changes the table only as its request allows: a GET, and a PUT
\* or DELETE answered 404 (or anything else not answered with success), leaves
\* it as it was; a PUT answered 200 changes the name of its row and nothing
\* else; a DELETE answered 204 removes its row and nothing else; a POST that
\* succeeded adds one row whose id no stored row has.
C11_Frame ==
    [][IF reqs' = reqs THEN db' = db ELSE FrameOf(reqs'[Stepper])]_vars

\* a PUT renamed its row while another row, created before, was stored
C11_Witness ==
    \E u \in DOMAIN reqs, c \in DOMAIN reqs :
        /\ reqs[u].kind = "updateItem" /\ Status(reqs[u]) = 200
        /\ reqs[u].item.name # reqs[u].name
        /\ reqs[c].kind = "createItem" /\ Status(reqs[c]) = 200
        /\ c \in reqs[u].prior
        /\ reqs[c].item.id # reqs[u].id
        /\ Cardinality(db) = 2

\* ---- C12 ----
\* C12: the application with one service variant and the application with the
\* other, given the same requests, answer every request alike (status and
\* body), have every request at the same point, and store the same items.
C12_Equivalent ==
    /\ twin.db = db
    /\ DOMAIN twin.reqs = DOMAIN reqs
    /\ \A i \in DOMAIN reqs :
          /\ twin.reqs[i].resp = reqs[i].resp
          /\ twin.reqs[i].pc = reqs[i].pc

\* a PUT or DELETE of an absent id, where the two variants throw different
\* errors and take different ways to the same 404, with an item stored
C12_Witness ==
    \E i \in DOMAIN reqs :
        /\ reqs[i].kind \in Mutators
        /\ reqs[i].err = ItemNotFound(variant)
        /\ twin.reqs[i].err = ItemNotFound(Other(variant))
        /\ twin.reqs[i].nexts # reqs[i].nexts
        /\ Status(reqs[i]) = 404 /\ Status(twin.reqs[i]) = 404
        /\ db # {}

====
